---- MODULE Spec2Model ----
(***************************************************************************)
(* Model of src/windows/aa.py: a scheduler that runs speedtest.exe on a    *)
(* 10-minute grid (minute = OFFSET_MINUTES mod 10) in Asia/Tokyo and       *)
(* appends one CSV line per successful run.                                *)
(*                                                                         *)
(* Time is counted in ticks of 1/SubPerSec second.  `clock' is the UTC     *)
(* wall clock; an aware datetime in tokyo_tz is the local tick count       *)
(* (Asia/Tokyo is a fixed +09:00 zone, so two datetimes carrying tokyo_tz  *)
(* compare by their local fields).  The wall clock is assumed not to step  *)
(* backwards.                                                              *)
(***************************************************************************)
EXTENDS Integers, Sequences, FiniteSets, TLC

VARIABLES
    clock,           \* UTC wall clock, in ticks
    pc,              \* position of main()
    tokyo_tz,        \* "unset" | "ok" ; global set by setup_timezone
    tz_known,        \* does the tz database know TIMEZONE
    offset,          \* offset_minutes passed to the calculator
    now,             \* main: now (line 230) / first argument of the calculator
    next_run_time,   \* main: next_run_time (line 233)
    calc_now,        \* calculate_next_run_time: now (line 100)
    wait_seconds,    \* main: wait_seconds (line 239), in ticks
    deadline,        \* UTC tick at which the running time.sleep may return
    datetime_part,   \* main: datetime_part (line 257)
    speedtest_part,  \* main: speedtest_part (line 260)
    file,            \* content of output_file: sequence of lines
    lost,            \* lines whose append failed
    probes,          \* number of run_speedtest calls started
    successes,       \* number of run_speedtest calls that returned text
    diag,            \* kinds of messages written to stderr so far
    exit_status,     \* -1 while running, else the process exit status
    said_bye,        \* the termination message (line 278/287) was printed
    intr_from,       \* pc at which the interrupt arrived, "none" before
    events_left,     \* remaining budget of delays, probe runs and exceptions
    iter_probes,     \* run_speedtest calls in the current loop iteration
    iter_appends,    \* lines appended in the current loop iteration
    probe_start,     \* local clock when the last run_speedtest call began
    probe_end,       \* local clock when the last run_speedtest call returned
    probe_target,    \* next_run_time of the iteration of the last call
    hpc,             \* position of the calculator harness
    res2,            \* harness: result of the second call
    at2,             \* harness: clock (local) read inside the second call
    kind2            \* harness: "same" | "chained" second call

vars == <<clock, pc, tokyo_tz, tz_known, offset, now, next_run_time, calc_now,
          wait_seconds, deadline, datetime_part, speedtest_part, file, lost,
          probes, successes, diag, exit_status, said_bye, intr_from,
          events_left, iter_probes, iter_appends, probe_start, probe_end,
          probe_target, hpc, res2, at2, kind2>>

mainVars == <<pc, tokyo_tz, tz_known, wait_seconds, deadline, datetime_part,
              speedtest_part, file, lost, probes, successes, diag,
              exit_status, said_bye, intr_from, iter_probes, iter_appends,
              probe_start, probe_end, probe_target>>

histVars == <<iter_probes, iter_appends, probe_start, probe_end, probe_target>>

harnessVars == <<hpc, res2, at2, kind2>>

----------------------------------------------------------------------------
(* Bounds and units *)

SubPerSec == 2
MaxEvents == 3
HarnessTicks == 1

TicksPerMin == 60 * SubPerSec
TicksPerHour == 60 * TicksPerMin
TicksPerDay == 24 * TicksPerHour

(* Program constants *)
OFFSET_MINUTES == 3
TokyoUtcOffsetHours == 9
BackoffSeconds == 60
BlockMinutes == 10

NoTime == 0 - 1

----------------------------------------------------------------------------
(* datetime fields of a local tick count *)

DateOf(t) == t \div TicksPerDay
HourOf(t) == (t \div TicksPerHour) % 24
MinuteOf(t) == (t \div TicksPerMin) % 60
SecondOf(t) == (t \div SubPerSec) % 60
SubOf(t) == t % SubPerSec

\* datetime.datetime.combine(date, datetime.time(hour=h, minute=m))
Combine(date, h, m) == date * TicksPerDay + h * TicksPerHour + m * TicksPerMin

\* datetime.now(utc).astimezone(tokyo_tz)
AsTokyo(utc) == utc + TokyoUtcOffsetHours * TicksPerHour

get_current_time == AsTokyo(clock)

----------------------------------------------------------------------------
(* calculate_next_run_time *)

\* line 100: the reference instant is a fresh clock read, not current_time
CalcBasis_arg(current_time) == current_time
CalcBasis_prev(current_time) ==
    IF next_run_time # NoTime THEN next_run_time ELSE get_current_time
CalcBasis(current_time) == get_current_time

\* block start of the reference instant, line 104
BaseMinute(t) == (MinuteOf(t) \div 10) * 10

\* lines 108-117 / 143-152: date, hour and minute of base + offset
TargetAt_nocarry(t, base_minute, offset_minutes) ==
    LET minute_abs == HourOf(t) * 60 + base_minute + offset_minutes
    IN  Combine(DateOf(t), (minute_abs \div 60) % 24, minute_abs % 60)
TargetAt(t, base_minute, offset_minutes) ==
    LET minute_abs == HourOf(t) * 60 + base_minute + offset_minutes
        hour_abs == minute_abs \div 60
    IN  Combine(DateOf(t) + hour_abs \div 24, hour_abs % 24, minute_abs % 60)

\* line 133
Target1IsFuture_ge(target1_time, t) == target1_time >= t
Target1IsFuture(target1_time, t) == target1_time > t

\* line 140
NextBaseMinute_same(t) == (MinuteOf(t) \div 10) * 10
NextBaseMinute_skip(t) == ((MinuteOf(t) \div 10) + 2) * 10
NextBaseMinute(t) == ((MinuteOf(t) \div 10) + 1) * 10

NextSlotFrom(t, offset_minutes) ==
    LET target1_time == TargetAt(t, BaseMinute(t), offset_minutes)
    IN  IF Target1IsFuture(target1_time, t)
        THEN target1_time
        ELSE TargetAt(t, NextBaseMinute(t), offset_minutes)

calculate_next_run_time(current_time, offset_minutes) ==
    NextSlotFrom(CalcBasis(current_time), offset_minutes)

----------------------------------------------------------------------------
(* Calculator harness: calls calculate_next_run_time the way main does     *)
(* (the argument is an earlier clock read), then calls it a second time,   *)
(* either with the same arguments or with the first result as argument.    *)

HarnessDates == {30, 58}
HarnessHours == {10, 23}
HarnessSeconds == {0, 59}
HarnessDelays == {1, 4 * TicksPerMin, BlockMinutes * TicksPerMin}

HarnessInstants ==
    { Combine(d, h, m) + s * SubPerSec + u :
        d \in HarnessDates, h \in HarnessHours, m \in 0..59,
        s \in HarnessSeconds, u \in 0..(SubPerSec - 1) }

ToUtc(local) == local - TokyoUtcOffsetHours * TicksPerHour

HInit ==
    /\ clock \in { ToUtc(l) : l \in HarnessInstants }
    /\ offset \in 0..9
    /\ hpc = "read"
    /\ pc = "harness"
    /\ tokyo_tz = "ok"
    /\ tz_known = TRUE
    /\ now = NoTime
    /\ next_run_time = NoTime
    /\ calc_now = NoTime
    /\ wait_seconds = 0
    /\ deadline = NoTime
    /\ datetime_part = <<>>
    /\ speedtest_part = [some |-> FALSE, text |-> <<>>]
    /\ file = <<>>
    /\ lost = {}
    /\ probes = 0
    /\ successes = 0
    /\ diag = {}
    /\ exit_status = NoTime
    /\ said_bye = FALSE
    /\ intr_from = "none"
    /\ events_left = HarnessTicks
    /\ iter_probes = 0
    /\ iter_appends = 0
    /\ probe_start = NoTime
    /\ probe_end = NoTime
    /\ probe_target = NoTime
    /\ res2 = NoTime
    /\ at2 = NoTime
    /\ kind2 = "none"

\* the caller reads the clock (as main does at line 230)
HRead ==
    /\ hpc = "read"
    /\ now' = get_current_time
    /\ hpc' = "call1"
    /\ UNCHANGED <<clock, offset, next_run_time, calc_now, events_left,
                   res2, at2, kind2, mainVars>>

\* time passes between two statements
HTick ==
    /\ hpc \in {"call1", "call2"}
    /\ events_left > 0
    /\ \E d \in HarnessDelays : clock' = clock + d
    /\ events_left' = events_left - 1
    /\ UNCHANGED <<offset, now, next_run_time, calc_now, harnessVars, mainVars>>

\* the caller waits until the clock reads the instant the first call returned
HWaitForSlot ==
    /\ hpc = "call2"
    /\ get_current_time < next_run_time
    /\ clock' = ToUtc(next_run_time)
    /\ UNCHANGED <<offset, now, next_run_time, calc_now, events_left,
                   harnessVars, mainVars>>

HCall1 ==
    /\ hpc = "call1"
    /\ next_run_time' = calculate_next_run_time(now, offset)
    /\ calc_now' = get_current_time
    /\ hpc' = "call2"
    /\ UNCHANGED <<clock, offset, now, events_left, res2, at2, kind2, mainVars>>

\* second call with the same (current_time, offset_minutes)
HCallSame ==
    /\ hpc = "call2"
    /\ res2' = calculate_next_run_time(now, offset)
    /\ at2' = get_current_time
    /\ kind2' = "same"
    /\ hpc' = "done"
    /\ UNCHANGED <<clock, offset, now, next_run_time, calc_now, events_left,
                   mainVars>>

\* second call on the instant the first call returned
HCallChained ==
    /\ hpc = "call2"
    /\ res2' = calculate_next_run_time(next_run_time, offset)
    /\ at2' = get_current_time
    /\ kind2' = "chained"
    /\ hpc' = "done"
    /\ UNCHANGED <<clock, offset, now, next_run_time, calc_now, events_left,
                   mainVars>>

HNext == HRead \/ HTick \/ HWaitForSlot \/ HCall1 \/ HCallSame \/ HCallChained

SpecCalc == HInit /\ [][HNext]_vars

----------------------------------------------------------------------------
(* strftime, run_speedtest, append_to_file *)

EpochYear == 2025
DaysPerYear == 365

DaysInMonth(m) ==
    IF m = 2 THEN 28 ELSE IF m \in {4, 6, 9, 11} THEN 30 ELSE 31

RECURSIVE MonthDay(_, _)
MonthDay(m, d) ==
    IF d < DaysInMonth(m) THEN <<m, d + 1>>
    ELSE MonthDay(m + 1, d - DaysInMonth(m))

YearOf(t) == EpochYear + DateOf(t) \div DaysPerYear
MonthOf(t) == MonthDay(1, DateOf(t) % DaysPerYear)[1]
DayOf(t) == MonthDay(1, DateOf(t) % DaysPerYear)[2]

\* strftime('%Y-%m-%d %H:%M:%S'): the fields down to the second
Stamp(t) == <<YearOf(t), MonthOf(t), DayOf(t), HourOf(t), MinuteOf(t), SecondOf(t)>>

\* strftime('"%Y-%m-%d %H:%M:%S",'), line 257
DatetimePart(t) == <<"\"", Stamp(t), "\"", ",">>

Whitespace == {" ", "\n"}

RECURSIVE LStrip(_)
LStrip(str) ==
    IF str # <<>> /\ Head(str) \in Whitespace THEN LStrip(Tail(str)) ELSE str

RECURSIVE RStrip(_)
RStrip(str) ==
    IF str # <<>> /\ str[Len(str)] \in Whitespace
    THEN RStrip(SubSeq(str, 1, Len(str) - 1)) ELSE str

\* str.strip(), line 185
Strip(str) == RStrip(LStrip(str))

None == [some |-> FALSE, text |-> <<>>]
Some(str) == [some |-> TRUE, text |-> str]

\* what speedtest.exe may print on success
Stdouts == { <<" ", "7", ",", "A", "\n">> }

\* the ways subprocess.run may fail, lines 187-203
FailureKinds == {"not_found", "exit_nonzero", "other"}

\* run_speedtest: the value returned for an outcome of the subprocess
run_speedtest(outcome) ==
    IF outcome.ok THEN Some(Strip(outcome.stdout)) ELSE None

ProbeOutcomes ==
    { [ok |-> TRUE, stdout |-> o, kind |-> "none"] : o \in Stdouts }
    \cup { [ok |-> FALSE, stdout |-> <<>>, kind |-> k] : k \in FailureKinds }

\* line 267
ShouldWrite_always(part) == TRUE
ShouldWrite(part) == part.some

\* line 268
OutputLine(dt_part, part) == dt_part \o part.text \o <<"\n">>

\* append_to_file: the file after the call; io_ok = makedirs/open/write worked
append_to_file(content, line, io_ok) ==
    IF io_ok THEN Append(content, line) ELSE content

----------------------------------------------------------------------------
(* main *)

StartInstants ==
    { Combine(30, 10, 2) + 59 * SubPerSec + (SubPerSec - 1),
      Combine(30, 23, 58) }

Delays == {1}
ProbeDurations == {20 * SubPerSec, 25 * TicksPerMin}
ShortSleep == 1
UncaughtInterruptStatuses == {1, 130}

\* positions inside the try block of the while loop
BodyPcs == {"idle", "calc", "wait", "sleeping", "stamp", "probing", "record"}

Max(a, b) == IF a >= b THEN a ELSE b

Init ==
    /\ clock \in { ToUtc(l) : l \in StartInstants }
    /\ offset = OFFSET_MINUTES
    /\ tz_known \in BOOLEAN
    /\ tokyo_tz = "unset"
    /\ pc = "start"
    /\ hpc = "off"
    /\ now = NoTime
    /\ next_run_time = NoTime
    /\ calc_now = NoTime
    /\ wait_seconds = 0
    /\ deadline = NoTime
    /\ datetime_part = <<>>
    /\ speedtest_part = None
    /\ file = <<>>
    /\ lost = {}
    /\ probes = 0
    /\ successes = 0
    /\ diag = {}
    /\ exit_status = NoTime
    /\ said_bye = FALSE
    /\ intr_from = "none"
    /\ events_left = MaxEvents
    /\ iter_probes = 0
    /\ iter_appends = 0
    /\ probe_start = NoTime
    /\ probe_end = NoTime
    /\ probe_target = NoTime
    /\ res2 = NoTime
    /\ at2 = NoTime
    /\ kind2 = "none"

\* setup_timezone when ZoneInfo(TIMEZONE) raises, lines 75-80
AfterTimezoneError_continue == "idle"
AfterTimezoneError == "exited"

\* lines 220-225 with setup_timezone, lines 70-80
Setup ==
    /\ pc = "start"
    /\ IF tz_known
       THEN /\ tokyo_tz' = "ok"
            /\ pc' = "idle"
            /\ UNCHANGED <<diag, exit_status>>
       ELSE /\ tokyo_tz' = "unset"
            /\ pc' = AfterTimezoneError
            /\ diag' = diag \cup {"timezone"}
            /\ exit_status' = IF pc' = "exited" THEN 1 ELSE exit_status
    /\ UNCHANGED <<clock, tz_known, offset, now, next_run_time, calc_now,
                   wait_seconds, deadline, datetime_part, speedtest_part,
                   file, lost, probes, successes, said_bye, intr_from,
                   events_left, harnessVars, histVars>>

\* positions at which processing time is let pass: between the clock read
\* and the calculator, between the calculator and the sleep, and between the
\* end of the sleep and the timestamp
TickPcs == {"calc", "wait", "stamp"}

\* processing time between two statements of the loop body
Tick ==
    /\ pc \in TickPcs
    /\ events_left > 0
    /\ \E d \in Delays : clock' = clock + d
    /\ events_left' = events_left - 1
    /\ UNCHANGED <<pc, tokyo_tz, tz_known, offset, now, next_run_time,
                   calc_now, wait_seconds, deadline, datetime_part,
                   speedtest_part, file, lost, probes, successes, diag,
                   exit_status, said_bye, intr_from, harnessVars, histVars>>

\* line 230
ReadNow ==
    /\ pc = "idle"
    /\ now' = get_current_time
    /\ iter_probes' = 0
    /\ iter_appends' = 0
    /\ pc' = "calc"
    /\ UNCHANGED <<clock, tokyo_tz, tz_known, offset, next_run_time, calc_now,
                   wait_seconds, deadline, datetime_part, speedtest_part,
                   file, lost, probes, successes, diag, exit_status,
                   said_bye, intr_from, events_left, probe_start, probe_end,
                   probe_target, harnessVars>>

\* lines 233-236
Calc ==
    /\ pc = "calc"
    /\ next_run_time' = calculate_next_run_time(now, offset)
    /\ calc_now' = get_current_time
    /\ pc' = "wait"
    /\ UNCHANGED <<clock, tokyo_tz, tz_known, offset, now, wait_seconds,
                   deadline, datetime_part, speedtest_part, file, lost,
                   probes, successes, diag, exit_status, said_bye,
                   intr_from, events_left, harnessVars, histVars>>

\* line 239
WaitSeconds_truncated(target, first_read) ==
    ((target - first_read) \div SubPerSec) * SubPerSec
WaitSeconds(target, first_read) == target - first_read

\* lines 239-249: compute the wait and enter time.sleep
StartSleep ==
    /\ pc = "wait"
    /\ wait_seconds' = WaitSeconds(next_run_time, now)
    /\ deadline' = IF wait_seconds' > 0 THEN clock + wait_seconds'
                                        ELSE clock + ShortSleep
    /\ pc' = "sleeping"
    /\ UNCHANGED <<clock, tokyo_tz, tz_known, offset, now, next_run_time,
                   calc_now, datetime_part, speedtest_part, file, lost,
                   probes, successes, diag, exit_status, said_bye,
                   intr_from, events_left, harnessVars, histVars>>

\* time.sleep returns, never before the requested duration has elapsed
EndSleep ==
    /\ pc = "sleeping"
    /\ clock' = Max(clock, deadline)
    /\ pc' = "stamp"
    /\ UNCHANGED <<tokyo_tz, tz_known, offset, now, next_run_time, calc_now,
                   wait_seconds, deadline, datetime_part, speedtest_part,
                   file, lost, probes, successes, diag, exit_status,
                   said_bye, intr_from, events_left, harnessVars, histVars>>

\* line 256: the instant the timestamp of the line is taken from
StampSource_scheduled == now
StampSource == get_current_time

\* lines 252-257
TakeStamp ==
    /\ pc = "stamp"
    /\ datetime_part' = DatetimePart(StampSource)
    /\ pc' = "probing"
    /\ UNCHANGED <<clock, tokyo_tz, tz_known, offset, now, next_run_time,
                   calc_now, wait_seconds, deadline, speedtest_part, file,
                   lost, probes, successes, diag, exit_status, said_bye,
                   intr_from, events_left, harnessVars, histVars>>

\* lines 260-264 with run_speedtest, lines 169-203
Probe ==
    /\ pc = "probing"
    /\ events_left > 0
    /\ \E outcome \in ProbeOutcomes, dur \in ProbeDurations :
        /\ speedtest_part' = run_speedtest(outcome)
        /\ successes' = IF outcome.ok THEN successes + 1 ELSE successes
        /\ diag' = IF outcome.ok THEN diag ELSE diag \cup {outcome.kind}
        /\ clock' = clock + dur
    /\ probes' = probes + 1
    /\ iter_probes' = iter_probes + 1
    /\ probe_start' = get_current_time
    /\ probe_end' = AsTokyo(clock')
    /\ probe_target' = next_run_time
    /\ events_left' = events_left - 1
    /\ pc' = "record"
    /\ UNCHANGED <<tokyo_tz, tz_known, offset, now, next_run_time, calc_now,
                   wait_seconds, deadline, datetime_part, file, lost,
                   exit_status, said_bye, intr_from, iter_appends,
                   harnessVars>>

\* after a failed append_to_file, lines 212-215
AfterAppendFailure_raise == "backoff"
AfterAppendFailure == "idle"

\* after the line of a successful probe was appended, lines 269-270
AfterRecord_again == "probing"
AfterRecord == "idle"

\* after a probe that returned None, lines 271-272
AfterProbeFailure_backoff == "backoff"
AfterProbeFailure == "idle"

\* lines 267-272 with append_to_file, lines 205-215
Record ==
    /\ pc = "record"
    /\ IF ShouldWrite(speedtest_part)
       THEN \E io_ok \in BOOLEAN :
              LET output_line == OutputLine(datetime_part, speedtest_part)
              IN  /\ file' = append_to_file(file, output_line, io_ok)
                  /\ iter_appends' = IF io_ok THEN iter_appends + 1
                                              ELSE iter_appends
                  /\ lost' = IF io_ok THEN lost ELSE lost \cup {output_line}
                  /\ diag' = IF io_ok THEN diag ELSE diag \cup {"write"}
                  /\ pc' = IF io_ok THEN AfterRecord ELSE AfterAppendFailure
       ELSE /\ pc' = AfterProbeFailure
            /\ UNCHANGED <<file, lost, diag, iter_appends>>
    /\ deadline' = IF pc' = "backoff" THEN clock + BackoffSeconds * SubPerSec
                                      ELSE deadline
    /\ UNCHANGED <<clock, tokyo_tz, tz_known, offset, now, next_run_time,
                   calc_now, wait_seconds, datetime_part, speedtest_part,
                   probes, successes, exit_status, said_bye, intr_from,
                   events_left, iter_probes, probe_start, probe_end,
                   probe_target, harnessVars>>

\* lines 280-285: where the loop goes when an Exception escapes the body
AfterError_stop == "stopped"
AfterError == "backoff"

\* line 285
BackoffTicks == BackoffSeconds * SubPerSec

\* an Exception escapes a statement of the loop body, lines 280-285
Raise ==
    /\ pc \in BodyPcs
    /\ events_left > 0
    /\ events_left' = events_left - 1
    /\ diag' = diag \cup {"unexpected"}
    /\ pc' = AfterError
    /\ deadline' = clock + BackoffTicks
    /\ exit_status' = IF pc' = "stopped" THEN 0 ELSE exit_status
    /\ UNCHANGED <<clock, tokyo_tz, tz_known, offset, now, next_run_time,
                   calc_now, wait_seconds, datetime_part, speedtest_part,
                   file, lost, probes, successes, said_bye, intr_from,
                   harnessVars, histVars>>

\* time.sleep(60) returns and the while loop starts over
EndBackoff ==
    /\ pc = "backoff"
    /\ clock' = Max(clock, deadline)
    /\ pc' = "idle"
    /\ UNCHANGED <<tokyo_tz, tz_known, offset, now, next_run_time, calc_now,
                   wait_seconds, deadline, datetime_part, speedtest_part,
                   file, lost, probes, successes, diag, exit_status,
                   said_bye, intr_from, events_left, harnessVars, histVars>>

\* where an interrupt during time.sleep(wait_seconds) leads, lines 244, 277
AfterSleepInterrupt_resume == "stamp"
AfterSleepInterrupt == "stopped"

\* KeyboardInterrupt inside the try block: lines 277-279, 287-288
InterruptInBody ==
    /\ pc \in BodyPcs
    /\ intr_from' = pc
    /\ pc' = IF pc = "sleeping" THEN AfterSleepInterrupt ELSE "stopped"
    /\ said_bye' = (pc' = "stopped")
    /\ exit_status' = IF pc' = "stopped" THEN 0 ELSE exit_status
    /\ UNCHANGED <<clock, tokyo_tz, tz_known, offset, now, next_run_time,
                   calc_now, wait_seconds, deadline, datetime_part,
                   speedtest_part, file, lost, probes, successes, diag,
                   events_left, harnessVars, histVars>>

\* KeyboardInterrupt inside the except handler (time.sleep(60), line 285):
\* no except clause covers it, the interpreter ends with a traceback
InterruptInBackoff ==
    /\ pc = "backoff"
    /\ intr_from' = pc
    /\ pc' = "crashed"
    /\ \E st \in UncaughtInterruptStatuses : exit_status' = st
    /\ UNCHANGED <<clock, tokyo_tz, tz_known, offset, now, next_run_time,
                   calc_now, wait_seconds, deadline, datetime_part,
                   speedtest_part, file, lost, probes, successes, diag,
                   said_bye, events_left, harnessVars, histVars>>

Next ==
    \/ Setup
    \/ Tick
    \/ ReadNow
    \/ Calc
    \/ StartSleep
    \/ EndSleep
    \/ TakeStamp
    \/ Probe
    \/ Record
    \/ Raise
    \/ EndBackoff
    \/ InterruptInBody
    \/ InterruptInBackoff

Spec == Init /\ [][Next]_vars

TypeOK ==
    /\ pc \in BodyPcs \cup {"start", "exited", "backoff", "stopped", "crashed", "harness"}
    /\ probes \in 0..MaxEvents
    /\ successes \in 0..probes
    /\ events_left \in 0..MaxEvents


----------------------------------------------------------------------------
(* Claims about the calculator, checked under SpecCalc *)

OnGrid(t, o) == MinuteOf(t) % 10 = o /\ SecondOf(t) = 0 /\ SubOf(t) = 0

C7_ChainStrictlyLater ==
    (hpc = "done" /\ kind2 = "chained") => res2 > next_run_time

\* C7 (amended): the chained call never returns an earlier instant, and it
\* returns a strictly later one exactly when the clock has reached the
\* first result by the time of the second call.
C7_ChainLaterOnceClockReachedSlot ==
    (hpc = "done" /\ kind2 = "chained") =>
        /\ res2 >= next_run_time
        /\ (res2 > next_run_time) <=> (at2 >= next_run_time)

C7_Witness ==
    /\ hpc = "done"
    /\ kind2 = "chained"
    /\ at2 = next_run_time
    /\ res2 = next_run_time + BlockMinutes * TicksPerMin

\* C8 (as stated): two calls with the same (current instant, offset) return
\* the same instant whatever the clock reads at each call.
C8_SameArgsSameResult ==
    (hpc = "done" /\ kind2 = "same") => res2 = next_run_time

\* C8 (amended): the result is determined by the clock value read inside
\* the call and the offset; the current_time argument has no influence:
\* two calls made at the same clock reading return the same instant even
\* with different arguments, and the result is the first slot after the
\* calculator's own reading whatever argument was passed.
C8_ResultFollowsClockNotArgument ==
    hpc = "done" =>
        /\ (at2 = calc_now => res2 = next_run_time)
        /\ OnGrid(res2, offset)
        /\ res2 > at2
        /\ res2 - at2 <= BlockMinutes * TicksPerMin

C8_Witness ==
    /\ hpc = "done"
    /\ kind2 = "chained"
    /\ at2 = calc_now
    /\ now # next_run_time
    /\ res2 = next_run_time

----------------------------------------------------------------------------
(* Claims about the run loop, checked under Spec *)

IsFullLine(l) ==
    /\ Len(l) >= 5
    /\ l[1] = "\""
    /\ l[3] = "\""
    /\ l[4] = ","
    /\ l[Len(l)] = "\n"

\* C3: a failed probe never produces a log line: the log never holds more
\* lines than probes have succeeded, a step that records a failed probe
\* leaves the log as it is, and every line in the log is a complete line.
C3_FailureWritesNothing ==
    /\ [](Len(file) <= successes)
    /\ [](\A i \in 1..Len(file) : IsFullLine(file[i]))
    /\ [][(pc = "record" /\ ~speedtest_part.some) => file' = file]_vars

C3_Witness ==
    /\ pc = "idle"
    /\ probes = 2
    /\ successes = 1
    /\ Len(file) = 1
    /\ ~speedtest_part.some
    /\ diag \cap FailureKinds # {}

\* C4 (as stated): an interrupt received in any state of the run loop,
\* the backoff sleep included, leads to Stopped with the termination
\* message printed and exit status 0.
C4_InterruptAlwaysStopsGracefully ==
    intr_from # "none" => (pc = "stopped" /\ said_bye /\ exit_status = 0)

\* C5: an interrupt that arrives during the sleep before a slot takes the
\* loop directly to Stopped, and no probe is started and nothing is
\* appended to the log from then on.
C5_InterruptedSleepSkipsProbe ==
    [][ /\ (intr_from = "none" /\ intr_from' = "sleeping") =>
            (pc' = "stopped" /\ probes' = probes /\ file' = file)
        /\ intr_from = "sleeping" =>
            (pc' = "stopped" /\ probes' = probes /\ file' = file) ]_vars

C5_Witness ==
    /\ intr_from = "sleeping"
    /\ pc = "stopped"
    /\ exit_status = 0
    /\ probes >= 1

\* C6 (as stated): the sleep before a slot lasts target - now2, where now2
\* is the clock at the moment the sleep starts, so the sleep ends at the
\* target and the time spent since the first clock read is not added.
C6_SleepMeasuredFromFreshRead ==
    (pc = "sleeping" /\ wait_seconds > 0) => deadline = ToUtc(next_run_time)

\* C9: an exception that escapes the loop body is reported and followed by
\* a 60 second sleep after which the loop is back at Idle; the process
\* ends only by an interrupt or by the timezone error at startup, never by
\* a probe error, a write error or an unexpected error.
C9_ErrorsNeverEndTheLoop ==
    /\ [](pc \in {"stopped", "crashed"} => intr_from # "none")
    /\ [](pc = "exited" => (~tz_known /\ probes = 0))
    /\ [](exit_status # NoTime => pc \in {"stopped", "crashed", "exited"})
    /\ [](pc = "backoff" =>
            /\ "unexpected" \in diag
            /\ deadline = clock + BackoffSeconds * SubPerSec)
    /\ [][(pc = "backoff" /\ pc' # "backoff" /\ intr_from' = "none") =>
            (pc' = "idle" /\ clock' >= deadline)]_vars

C9_Witness ==
    /\ pc = "calc"
    /\ "unexpected" \in diag
    /\ diag \cap FailureKinds # {}
    /\ "write" \in diag
    /\ now >= AsTokyo(deadline)
    /\ exit_status = NoTime

\* C10: a failed append is reported, the line is dropped for good (it is
\* never in the log afterwards), and the loop goes back to Idle without
\* entering the backoff sleep.
C10_FailedAppendIsDroppedLoopContinues ==
    /\ [](\A l \in lost : \A i \in 1..Len(file) : file[i] # l)
    /\ [](lost # {} => "write" \in diag)
    /\ [][lost' # lost =>
            (pc' = "idle" /\ file' = file /\ deadline' = deadline
             /\ exit_status' = exit_status)]_vars

C10_Witness ==
    /\ pc = "idle"
    /\ lost # {}
    /\ Len(file) = 1
    /\ SubSeq(file[1], 1, 4) = datetime_part
    /\ \E l \in lost : SubSeq(l, 1, 4) # datetime_part

\* positions of an iteration after the target was computed and before the
\* probe has run
BeforeProbePcs == {"wait", "sleeping", "stamp", "probing"}

\* C11: recording a failed probe takes the loop straight back to Idle: the
\* backoff sleep is not entered, the clock is not advanced and no sleep
\* deadline is set; the failed call itself always proceeds to the record
\* step.
C11_ProbeFailureSkipsBackoff ==
    /\ [][(pc = "record" /\ ~speedtest_part.some /\ pc' # pc
           /\ events_left' = events_left /\ intr_from' = "none") =>
            (pc' = "idle" /\ clock' = clock /\ deadline' = deadline)]_vars
    /\ [][probes' # probes => pc' = "record"]_vars

C11_Witness ==
    /\ pc = "wait"
    /\ probes = 1
    /\ ~speedtest_part.some
    /\ events_left = MaxEvents - 1
    /\ calc_now = probe_end
    /\ next_run_time > probe_end

\* C12: an iteration calls run_speedtest at most once and appends at most
\* one line, a line only after its call; when the next iteration computes
\* its target and sleeps, no call of the new iteration has been made and
\* the previous call has returned.
C12_OneProbeOneLinePerIteration ==
    /\ iter_probes <= 1
    /\ iter_appends <= iter_probes
    /\ pc \in ({"calc"} \cup BeforeProbePcs) =>
          (iter_probes = 0 /\ iter_appends = 0)
    /\ pc = "record" => (iter_probes = 1 /\ iter_appends = 0)
    /\ probes >= 1 => probe_end >= probe_start

C12_Witness ==
    /\ pc = "record"
    /\ probes = 2
    /\ iter_probes = 1
    /\ Len(file) = 1

\* C13: no catch-up: the target of an iteration is the first grid slot
\* after the clock value the calculator reads in that iteration, so it lies
\* after the end of the previous probe and the slots that passed while the
\* probe ran are never targets.
C13_NoCatchUp ==
    (pc \in BeforeProbePcs /\ iter_probes = 0) =>
        /\ OnGrid(next_run_time, offset)
        /\ next_run_time > calc_now
        /\ next_run_time - calc_now <= BlockMinutes * TicksPerMin
        /\ calc_now >= now
        /\ probes >= 1 => (calc_now >= probe_end /\ next_run_time > probe_end)

C13_Witness ==
    /\ pc = "wait"
    /\ probes = 1
    /\ probe_end - probe_start > 2 * BlockMinutes * TicksPerMin
    /\ next_run_time = probe_target + 3 * BlockMinutes * TicksPerMin

\* C14: the appended line is the quoted timestamp, a comma, the text
\* run_speedtest returned and a newline, and the timestamp is the clock at
\* the start of the probe, to the second.
C14_LineIsStampAtProbeStartAndText ==
    [][file' # file =>
        file' = Append(file, <<"\"", Stamp(probe_start), "\"", ",">>
                             \o speedtest_part.text \o <<"\n">>)]_vars

C14_Witness ==
    /\ Len(file) = 1
    /\ pc = "idle"
    /\ file[1][2] = Stamp(probe_start)
    /\ Stamp(probe_start) # Stamp(now)
    /\ Stamp(probe_start) # Stamp(probe_end)

C16_DueTargetSkipsSleep ==
    (pc = "sleeping" /\ get_current_time >= next_run_time) => deadline <= clock

\* C17: when the timezone is unknown the process ends at startup with a
\* non-zero status: the loop is never entered, so the clock is never read,
\* nothing is slept, probed or appended.
C17_TimezoneErrorIsFatal ==
    ~tz_known =>
        /\ pc \in {"start", "exited"}
        /\ now = NoTime
        /\ deadline = NoTime
        /\ probes = 0
        /\ file = <<>>
        /\ pc = "exited" => (exit_status > 0 /\ "timezone" \in diag)
        /\ pc = "start" => exit_status = NoTime

C17_Witness ==
    /\ ~tz_known
    /\ pc = "exited"
    /\ exit_status = 1
    /\ tokyo_tz = "unset"

\* C18: a probe never starts before the target of its iteration, and the
\* target of an iteration is later than the target of the previous probe.
C18_ProbeNeverBeforeTarget ==
    /\ pc \in {"stamp", "probing"} => get_current_time >= next_run_time
    /\ probes >= 1 => probe_start >= probe_target
    /\ (probes >= 1 /\ pc \in BeforeProbePcs /\ iter_probes = 0) =>
          next_run_time > probe_target

C18_Witness ==
    /\ pc = "probing"
    /\ probes = 1
    /\ get_current_time = next_run_time
    /\ next_run_time = probe_target + BlockMinutes * TicksPerMin

====
